---- MODULE Spec2Model ----
(***************************************************************************)
(* Earthquake Impact Checker (src/main.py): the /impact handler            *)
(* check_impact and the scoring functions it calls.                        *)
(*                                                                         *)
(* Units.  Python floats are modelled as fixed-point integers:             *)
(*   magnitudes            in hundredths        (3.0  is 300)              *)
(*   positions, distances  in hundredths of km  (1000 km is 100000)        *)
(*   scores and the rounded distance_km in tenths, as round(x, 1) leaves   *)
(*   them                                        (34.0 is 340)             *)
(* A nullable magnitude is a sequence: << >> is None, <<300>> is 3.0.      *)
(* Query point and epicentres lie on one meridian, so a position is one    *)
(* number (arc length from the equator) and the geodesic is the absolute   *)
(* difference.  The place name and the depth of an event are carried       *)
(* through to the response unused by any decision and are left out.        *)
(***************************************************************************)
EXTENDS Integers, Sequences, FiniteSets

VARIABLES feed, pc, lat, building, data, nearby_quakes, quake, call, response, fetches

vars == <<feed, pc, lat, building, data, nearby_quakes, quake, call, response, fetches>>

(* ------------------------------ bounds --------------------------------- *)

MaxFeed == 3

Positions == {0, 10000, 85000, 100000}

Lats == {0, 5000}

Buildings == {"house", "apartment", "old_building", "tent"}

Outcomes == {"ok", "no_key", "timeout", "not_json"}

\* Events strong enough to count lie anywhere; the too-weak ones and those of
\* unknown magnitude lie at the nearest position, where admitting one would
\* make it the closest.
Events ==
    [mag : {<<300>>, <<600>>}, pos : Positions]
        \cup [mag : {<< >>, <<299>>}, pos : {0}]

ScoreMags == {100, 300, 497, 500, 600, 875}

ScoreDistances == {0, 999, 1000, 4999, 5000, 9999, 10000, 19999, 20000, 99999}

SyntheticScores == {0, 99, 100, 199, 200, 299, 300, 449, 450, 599, 600}

(* --------------------------- scoring logic ----------------------------- *)

\* mag < 3, in hundredths
MinMagnitude == 300

\* dist < 1000, in hundredths of km
MaxDistance == 100000

\* Mutant: the apartment and old_building factors swapped and scaled.
building_factor_swapped(building_type) ==
    CASE building_type = "house" -> 0
      [] building_type = "apartment" -> 3
      [] building_type = "old_building" -> 2
      [] OTHER -> 0

building_factor(building_type) ==
    CASE building_type = "house" -> 0
      [] building_type = "apartment" -> 1
      [] building_type = "old_building" -> 2
      [] OTHER -> 0

\* Mutant: the factors of the 10-50 km and 50-100 km bands exchanged.
distance_factor_exchanged(distance_km) ==
    IF distance_km < 1000 THEN 10
    ELSE IF distance_km < 5000 THEN 5
    ELSE IF distance_km < 10000 THEN 7
    ELSE IF distance_km < 20000 THEN 3
    ELSE 0

distance_factor(distance_km) ==
    IF distance_km < 1000 THEN 10
    ELSE IF distance_km < 5000 THEN 7
    ELSE IF distance_km < 10000 THEN 5
    ELSE IF distance_km < 20000 THEN 3
    ELSE 0

\* round(x, 1) of a non-negative value given in hundredths; the result is in
\* tenths.  No value of the model ends in 5, so no tie is ever rounded.
round1(x) == (x + 5) \div 10

\* Mutant: the distance factor left out of the sum.
impact_score_no_distance(magnitude, distance_km, building_type) ==
    round1(magnitude * 4 + 100 * building_factor(building_type))

\* Mutant: a magnitude weight of 3 in place of 4.
impact_score_weight3(magnitude, distance_km, building_type) ==
    round1(magnitude * 3
           + 100 * building_factor(building_type)
           + 100 * distance_factor(distance_km))

impact_score(magnitude, distance_km, building_type) ==
    round1(magnitude * 4
           + 100 * building_factor(building_type)
           + 100 * distance_factor(distance_km))

\* Mutant: the thresholds compared with <= in place of <.
impact_level_inclusive(score) ==
    IF score <= 200 THEN "Low"
    ELSE IF score <= 450 THEN "Medium"
    ELSE "High"

impact_level(score) ==
    IF score < 200 THEN "Low"
    ELSE IF score < 450 THEN "Medium"
    ELSE "High"

felt_intensity(score) ==
    IF score < 200 THEN "Barely felt"
    ELSE IF score < 450 THEN "Strong shaking possible"
    ELSE "Potential damage"

confidence_statement(score) ==
    IF score < 100 THEN "You are very unlikely to notice any earthquake activity."
    ELSE IF score < 300 THEN "Some people may feel light shaking."
    ELSE "There is a realistic chance of noticeable shaking."

(* ------------------------------ handler -------------------------------- *)

IsNone(mag) == mag = << >>

geodesic(a, b) == IF a >= b THEN a - b ELSE b - a

\* Mutant: the radius test admits exactly 1000 km.
ScanInclusiveRadius(nearby, q, at) ==
    IF IsNone(q.mag) \/ q.mag[1] < MinMagnitude
    THEN nearby
    ELSE LET dist == geodesic(at, q.pos)
         IN  IF dist <= MaxDistance THEN Append(nearby, [q |-> q, dist |-> dist])
             ELSE nearby

\* Mutant: only events of unknown magnitude are skipped.
ScanAnyMagnitude(nearby, q, at) ==
    IF IsNone(q.mag)
    THEN nearby
    ELSE LET dist == geodesic(at, q.pos)
         IN  IF dist < MaxDistance THEN Append(nearby, [q |-> q, dist |-> dist])
             ELSE nearby

\* One pass of the loop body: the event is skipped or appended with its distance.
Scan(nearby, q, at) ==
    IF IsNone(q.mag) \/ q.mag[1] < MinMagnitude
    THEN nearby
    ELSE LET dist == geodesic(at, q.pos)
         IN  IF dist < MaxDistance THEN Append(nearby, [q |-> q, dist |-> dist])
             ELSE nearby

RECURSIVE NearbyQuakes(_, _)
NearbyQuakes(features, at) ==
    IF features = << >> THEN << >>
    ELSE Scan(NearbyQuakes(SubSeq(features, 1, Len(features) - 1), at),
              features[Len(features)], at)

\* Mutant: a later element of equal key replaces the one kept.
RECURSIVE MinScanLast(_, _, _)
MinScanLast(pairs, i, best) ==
    IF i > Len(pairs) THEN best
    ELSE MinScanLast(pairs, i + 1, IF pairs[i].dist <= best.dist THEN pairs[i] ELSE best)

\* min(nearby_quakes, key=lambda x: x[1]): the first element of least key.
RECURSIVE MinScan(_, _, _)
MinScan(pairs, i, best) ==
    IF i > Len(pairs) THEN best
    ELSE MinScan(pairs, i + 1, IF pairs[i].dist < best.dist THEN pairs[i] ELSE best)

\* Mutant: the first candidate taken without a scan.
MinByDistFirst(pairs) == pairs[1]

MinByDist(pairs) == MinScan(pairs, 2, pairs[1])

FetchError == [error |-> "Cannot fetch earthquake data."]

\* Mutant: the message of the fetch failure reused.
NoDataErrorSameMessage == [error |-> "Cannot fetch earthquake data."]

NoDataError == [error |-> "No earthquake data available"]

NoRelevantQuakes ==
    [status |-> "No relevant earthquakes near your location",
     impact_level |-> "Low",
     impact_score |-> 0,
     felt_intensity |-> "None",
     confidence |-> "No earthquake activity near you is expected to be felt.",
     why |-> "No earthquakes of magnitude 3.0+ occurred within 1000 km in the last hour.",
     what_to_do |-> <<"No action needed",
                      "Stay informed for future alerts",
                      "Ensure general emergency preparedness">>]

ClosestQuake(sel, at, score) ==
    [earthquake |-> [magnitude |-> sel.q.mag[1]],
     your_location |-> [latitude |-> at],
     distance_km |-> round1(sel.dist),
     impact_score |-> score,
     impact_level |-> impact_level(score),
     felt_intensity |-> felt_intensity(score),
     confidence |-> confidence_statement(score),
     why |-> "This is the closest significant earthquake to your location.",
     what_to_do |-> <<"Stay calm and informed",
                      "Secure loose objects nearby",
                      "Check emergency supplies">>]

\* requests.get(...).json(): the parsed body, or the exception the try block catches.
Fetch(outcome, features) ==
    CASE outcome = "ok" -> [features |-> features]
      [] outcome = "no_key" -> [type |-> "FeatureCollection"]
      [] OTHER -> [raised |-> outcome]

\* data.get("features")
GetFeatures(body) == IF "features" \in DOMAIN body THEN body.features ELSE << >>

NoCall == [none |-> TRUE]

\* The whole handler: every local it leaves behind and the payload it returns.
check_impact(outcome, features, at, building_type) ==
    LET body == Fetch(outcome, features)
        bare == [data |-> body, nearby_quakes |-> << >>, quake |-> << >>,
                 call |-> NoCall, response |-> FetchError]
    IN  IF "raised" \in DOMAIN body THEN bare
        ELSE IF GetFeatures(body) = << >>
        THEN [bare EXCEPT !.response = NoDataError]
        ELSE LET nearby == NearbyQuakes(body.features, at)
             IN  IF nearby = << >>
                 THEN [bare EXCEPT !.response = NoRelevantQuakes]
                 ELSE LET sel == MinByDist(nearby)
                          score == impact_score(sel.q.mag[1], sel.dist, building_type)
                      IN  [data |-> body,
                           nearby_quakes |-> nearby,
                           quake |-> <<sel>>,
                           call |-> [magnitude |-> sel.q.mag[1],
                                     distance_km |-> sel.dist,
                                     building_type |-> building_type,
                                     score |-> score],
                           response |-> ClosestQuake(sel, at, score)]

(* --------------------------- state machine ----------------------------- *)

NoData == [none |-> TRUE]

NoResponse == [none |-> TRUE]

Idle ==
    /\ pc = "idle"
    /\ lat = 0
    /\ building = "house"
    /\ data = NoData
    /\ nearby_quakes = << >>
    /\ quake = << >>
    /\ call = NoCall
    /\ response = NoResponse
    /\ fetches = 0

Init == feed = << >> /\ Idle

\* The upstream feed gains an event.
Publish(q) ==
    /\ pc = "idle"
    /\ Len(feed) < MaxFeed
    /\ feed' = Append(feed, q)
    /\ UNCHANGED <<pc, lat, building, data, nearby_quakes, quake, call, response, fetches>>

\* GET /impact?lat=..&building=.. while the upstream behaves as outcome says.
CheckImpact(at, building_type, outcome) ==
    /\ pc = "idle"
    /\ LET r == check_impact(outcome, feed, at, building_type)
       IN  /\ data' = r.data
           /\ nearby_quakes' = r.nearby_quakes
           /\ quake' = r.quake
           /\ call' = r.call
           /\ response' = r.response
    /\ lat' = at
    /\ building' = building_type
    /\ fetches' = 1
    /\ pc' = "responded"
    /\ UNCHANGED feed

\* The payload is sent; nothing of the request survives it.
Respond ==
    /\ pc = "responded"
    /\ pc' = "idle"
    /\ lat' = 0
    /\ building' = "house"
    /\ data' = NoData
    /\ nearby_quakes' = << >>
    /\ quake' = << >>
    /\ call' = NoCall
    /\ response' = NoResponse
    /\ fetches' = 0
    /\ UNCHANGED feed

Next ==
    \/ \E q \in Events : Publish(q)
    \/ \E at \in Lats, b \in Buildings, o \in Outcomes : CheckImpact(at, b, o)
    \/ Respond

Spec == Init /\ [][Next]_vars

(* ------------------- the scoring functions on their own ---------------- *)

ScoreArgs == [magnitude : ScoreMags, distance_km : ScoreDistances, building_type : Buildings]

InitScore ==
    /\ feed = << >>
    /\ lat = 0
    /\ building = "house"
    /\ data = NoData
    /\ nearby_quakes = << >>
    /\ quake = << >>
    /\ response = NoResponse
    /\ fetches = 0
    /\ \/ pc = "args" /\ call \in ScoreArgs
       \/ pc = "synthetic" /\ call \in [score : SyntheticScores]

\* score = impact_score(magnitude, distance_km, building)
ScoreCall ==
    /\ pc = "args"
    /\ call' = [magnitude |-> call.magnitude,
                distance_km |-> call.distance_km,
                building_type |-> call.building_type,
                score |-> impact_score(call.magnitude, call.distance_km,
                                       call.building_type)]
    /\ pc' = "scored"
    /\ UNCHANGED <<feed, lat, building, data, nearby_quakes, quake, response, fetches>>

\* impact_level(score), felt_intensity(score), confidence_statement(score)
Classify ==
    /\ pc \in {"scored", "synthetic"}
    /\ response' = [impact_score |-> call.score,
                    impact_level |-> impact_level(call.score),
                    felt_intensity |-> felt_intensity(call.score),
                    confidence |-> confidence_statement(call.score)]
    /\ pc' = "labelled"
    /\ UNCHANGED <<feed, lat, building, data, nearby_quakes, quake, call, fetches>>

NextScore == ScoreCall \/ Classify

ScoreSpec == InitScore /\ [][NextScore]_vars

(* ------------------------------ claims --------------------------------- *)

Responded == pc = "responded"

Fetched == Responded /\ "features" \in DOMAIN data

IsError(r) == "error" \in DOMAIN r

IsFound(r) == "earthquake" \in DOMAIN r

\* An eligible event as the specification words it: magnitude known and at
\* least 3.0, less than 1000 km from the query point.
Eligible(q, at) ==
    /\ q.mag # << >>
    /\ q.mag[1] >= 300
    /\ geodesic(at, q.pos) < 100000

EligibleAt(features, at) == {i \in DOMAIN features : Eligible(features[i], at)}

MinDistance(features, at) ==
    CHOOSE d \in {geodesic(at, features[i].pos) : i \in EligibleAt(features, at)} :
        \A j \in EligibleAt(features, at) : d <= geodesic(at, features[j].pos)

Nearest(features, at) ==
    LET least == MinDistance(features, at)
    IN  {i \in EligibleAt(features, at) : geodesic(at, features[i].pos) = least}

Permutations(s) ==
    {[i \in DOMAIN s |-> s[f[i]]] :
        f \in {g \in [DOMAIN s -> DOMAIN s] : \A a, b \in DOMAIN s : g[a] = g[b] => a = b}}

HasEligible == Fetched /\ EligibleAt(data.features, lat) # {}

\* C1 (as amended): whenever the fetched feed holds an eligible event, the
\* handler reports an eligible event at the least distance of all eligible
\* events; the reported distance is the same for every permutation of the
\* feature list, and so is the whole report when one event alone is nearest.
C1_NearestReported ==
    HasEligible =>
        LET least == MinDistance(data.features, lat)
            nearest == {data.features[i] : i \in Nearest(data.features, lat)}
            sole == Cardinality(nearest) = 1
        IN  /\ IsFound(response)
            /\ quake[1].q \in nearest
            /\ quake[1].dist = least
            /\ response.distance_km = round1(least)
            /\ \A p \in Permutations(data.features) :
                  LET r == check_impact("ok", p, lat, building)
                  IN  /\ r.response.distance_km = response.distance_km
                      /\ sole => r.response = response /\ r.quake = quake

\* C1 as written: the report is the same for every permutation of the feature list.
C1_SameForEveryPermutation ==
    HasEligible =>
        /\ IsFound(response)
        /\ quake[1].dist = MinDistance(data.features, lat)
        /\ \A p \in Permutations(data.features) :
              check_impact("ok", p, lat, building).response = response

\* Three candidates at 800, 50 and 950 km, in that order; the 50 km one is reported.
C1_Witness ==
    /\ Fetched
    /\ Len(data.features) = 3
    /\ \A i \in 1..3 : Eligible(data.features[i], lat)
    /\ geodesic(lat, data.features[1].pos) = 80000
    /\ geodesic(lat, data.features[2].pos) = 5000
    /\ geodesic(lat, data.features[3].pos) = 95000
    /\ IsFound(response)
    /\ response.distance_km = 500

\* C2: every pair in nearby_quakes, and the event reported, has a known
\* magnitude of at least 3.0 and lies less than 1000 km away; no event of the
\* feed that fails one of these is in nearby_quakes.
C2_OnlyEligible ==
    Responded =>
        /\ \A k \in DOMAIN nearby_quakes :
              /\ Eligible(nearby_quakes[k].q, lat)
              /\ nearby_quakes[k].dist = geodesic(lat, nearby_quakes[k].q.pos)
        /\ Fetched =>
              \A i \in DOMAIN data.features :
                  ~Eligible(data.features[i], lat) =>
                      \A k \in DOMAIN nearby_quakes :
                          nearby_quakes[k].q # data.features[i]
        /\ IsFound(response) =>
              /\ Eligible(quake[1].q, lat)
              /\ quake[1].dist < 100000
              /\ response.earthquake.magnitude = quake[1].q.mag[1]
              /\ response.earthquake.magnitude >= 300

\* A too-weak event at 0 km and one at exactly 1000 km are passed over for the
\* one at 850 km.
C2_Witness ==
    /\ Fetched
    /\ lat = 0
    /\ \E i \in DOMAIN data.features :
          data.features[i] = [mag |-> <<299>>, pos |-> 0]
    /\ \E i \in DOMAIN data.features :
          data.features[i] = [mag |-> <<300>>, pos |-> 100000]
    /\ IsFound(response)
    /\ quake[1].q = [mag |-> <<600>>, pos |-> 85000]

AllWeak(features) ==
    \A i \in DOMAIN features : features[i].mag = << >> \/ features[i].mag[1] < 300

\* C3 (as amended): when the fetched feed is not empty and every event in it
\* has a magnitude below 3.0 or none, the handler returns the fixed result of
\* branch A, level Low and score 0; an empty feed gets the error payload
\* "No earthquake data available" instead.
C3_AllWeakIsBranchA ==
    Fetched /\ AllWeak(data.features) =>
        IF data.features = << >>
        THEN response = [error |-> "No earthquake data available"]
        ELSE /\ response = NoRelevantQuakes
             /\ response.impact_level = "Low"
             /\ response.impact_score = 0
             /\ Len(response.what_to_do) = 3

\* C3 as written: an empty feed, too, gets the result of branch A.
C3_EmptyOrAllWeakIsBranchA ==
    Fetched /\ AllWeak(data.features) =>
        /\ ~IsError(response)
        /\ response.impact_level = "Low"
        /\ response.impact_score = 0

C3_Witness ==
    /\ Fetched
    /\ Len(data.features) >= 2
    /\ AllWeak(data.features)
    /\ \E i \in DOMAIN data.features : data.features[i].mag = << >>
    /\ \E i \in DOMAIN data.features : data.features[i].mag = <<299>>
    /\ response.impact_score = 0

\* C4: a failed fetch or an unparsable body yields a payload of the error
\* field alone, after one fetch and with nothing computed; a body without
\* features yields an error payload with another message; a feed with
\* features but no eligible event yields the result of branch A, which has
\* no error field.
C4_ThreeOutcomes ==
    Responded =>
        /\ fetches = 1
        /\ "raised" \in DOMAIN data =>
              /\ DOMAIN response = {"error"}
              /\ response.error = "Cannot fetch earthquake data."
              /\ nearby_quakes = << >> /\ quake = << >> /\ call = NoCall
        /\ ("raised" \notin DOMAIN data /\ GetFeatures(data) = << >>) =>
              /\ DOMAIN response = {"error"}
              /\ response.error # "Cannot fetch earthquake data."
              /\ response.error = "No earthquake data available"
        /\ (Fetched /\ data.features # << >> /\ EligibleAt(data.features, lat) = {}) =>
              /\ ~IsError(response)
              /\ ~IsFound(response)
              /\ response.status = "No relevant earthquakes near your location"

\* The upstream times out while the feed holds an eligible event.
C4_Witness ==
    /\ Responded
    /\ data = [raised |-> "timeout"]
    /\ EligibleAt(feed, lat) # {}
    /\ IsError(response)

\* C6 (as amended): for the selected event of magnitude 6.0 at 0 km and a
\* house, impact_score is 34.0, impact_level "Medium" and felt_intensity
\* "Strong shaking possible".
C6_Magnitude6AtZero ==
    (Responded /\ IsFound(response) /\ quake[1].q.mag = <<600>>
        /\ quake[1].dist = 0 /\ building = "house") =>
        /\ call = [magnitude |-> 600, distance_km |-> 0,
                   building_type |-> "house", score |-> 340]
        /\ response.impact_score = 340
        /\ response.impact_level = "Medium"
        /\ response.felt_intensity = "Strong shaking possible"

\* C6 as written: score 70, level "High", felt intensity "Potential damage".
C6_Scores70 ==
    (Responded /\ IsFound(response) /\ quake[1].q.mag = <<600>>
        /\ quake[1].dist = 0 /\ building = "house") =>
        /\ response.impact_score = 700
        /\ response.impact_level = "High"
        /\ response.felt_intensity = "Potential damage"

C6_Witness ==
    /\ Responded
    /\ IsFound(response)
    /\ response.earthquake.magnitude = 600
    /\ response.distance_km = 0
    /\ building = "house"

Least(S) == CHOOSE i \in S : \A j \in S : i <= j

SelectEligible(features, at) ==
    LET Test(q) == Eligible(q, at)
        kept == SelectSeq(features, Test)
    IN  [k \in DOMAIN kept |-> [q |-> kept[k], dist |-> geodesic(at, kept[k].pos)]]

\* C9: nearby_quakes holds the eligible events in feed order, and of the
\* eligible events at the least distance the handler reports the one that
\* comes first in the feed.
C9_FirstOfTies ==
    HasEligible =>
        /\ nearby_quakes = SelectEligible(data.features, lat)
        /\ quake[1].q = data.features[Least(Nearest(data.features, lat))]
        /\ response.earthquake.magnitude
               = data.features[Least(Nearest(data.features, lat))].mag[1]

\* Two different events tie for the least distance, the later one listed
\* after an event that is farther away.
C9_Witness ==
    /\ HasEligible
    /\ Cardinality({data.features[i] : i \in Nearest(data.features, lat)}) = 2
    /\ Least(Nearest(data.features, lat)) > 1
    /\ \E i, j \in Nearest(data.features, lat) :
          data.features[i].mag # data.features[j].mag
    /\ IsFound(response)

\* C10: in every candidate-found result the score is at least 12.0, and the
\* confidence statement is never the one for scores below 10.
C10_ScoreAtLeast12 ==
    (Responded /\ IsFound(response)) =>
        /\ response.impact_score >= 120
        /\ call.score = response.impact_score
        /\ response.confidence
               # "You are very unlikely to notice any earthquake activity."

\* The weakest eligible event, far away, under a house: the score is 12.0.
C10_Witness ==
    /\ Responded
    /\ IsFound(response)
    /\ response.earthquake.magnitude = 300
    /\ quake[1].dist >= 20000
    /\ building \in {"house", "tent"}
    /\ response.impact_score = 120

\* C5 (as amended): impact_level is "Low" for a score below 20, "Medium" from
\* 20 up to but not 45, and "High" from 45 on; a score of exactly 30 is
\* "Medium", and so is 29.9.
C5_LevelThresholds ==
    pc = "labelled" =>
        /\ response.impact_level \in {"Low", "Medium", "High"}
        /\ response.impact_level = "Low" <=> call.score < 200
        /\ response.impact_level = "Medium" <=> (200 <= call.score /\ call.score < 450)
        /\ response.impact_level = "High" <=> call.score >= 450
        /\ call.score \in {299, 300} => response.impact_level = "Medium"

\* C5 as written: "Low" below 30, "Medium" from 30 up to but not 60, "High"
\* from 60 on, so that 29.9 is "Low".
C5_Thresholds30And60 ==
    pc = "labelled" =>
        /\ response.impact_level = "Low" <=> call.score < 300
        /\ response.impact_level = "Medium" <=> (300 <= call.score /\ call.score < 600)
        /\ response.impact_level = "High" <=> call.score >= 600

\* The synthetic score 29.9 has been classified.
C5_Witness ==
    /\ pc = "labelled"
    /\ call = [score |-> 299]
    /\ response.impact_level = "Medium"

Scored == pc = "scored"

\* C7: for the magnitude and distance of the call, the score of an old
\* building is at least that of an apartment, which is at least that of a
\* house; a building type that is none of the three scores as a house.
C7_BuildingOrder ==
    Scored =>
        LET of(b) == impact_score(call.magnitude, call.distance_km, b)
        IN  /\ call.building_type = "old_building" =>
                  call.score >= of("apartment") /\ call.score >= of("house")
            /\ call.building_type = "apartment" =>
                  call.score <= of("old_building") /\ call.score >= of("house")
            /\ call.building_type = "house" =>
                  call.score <= of("apartment") /\ call.score <= of("old_building")
            /\ call.building_type \notin {"house", "apartment", "old_building"} =>
                  call.score = round1(call.magnitude * 4
                                      + 100 * distance_factor(call.distance_km))

C7_Witness ==
    /\ Scored
    /\ call.building_type = "tent"
    /\ call.score = impact_score(call.magnitude, call.distance_km, "house")
    /\ call.score < impact_score(call.magnitude, call.distance_km, "apartment")

\* C8: for the magnitude and building type of the call, no distance at or
\* beyond the call's, up to 1000 km, scores higher than the call did.
C8_NonIncreasingInDistance ==
    Scored =>
        \A d \in ScoreDistances :
            d >= call.distance_km =>
                impact_score(call.magnitude, d, call.building_type) <= call.score

\* A call at the 50 km band boundary, which scores below the band before it.
C8_Witness ==
    /\ Scored
    /\ call.distance_km = 5000
    /\ call.score < impact_score(call.magnitude, 4999, call.building_type)

====
